---- MODULE Spec2Model ----
(***************************************************************************)
(* The EPA CEMS hourly transform of pudl/transform/epacems.py: the stage   *)
(* functions as operators over data frames, and the generator `transform`  *)
(* as a state machine driven by its consumer.                              *)
(*                                                                         *)
(* A data frame is [columns |-> set of column names, rows |-> sequence of  *)
(* functions from the columns to values].  A nullable value is a sequence: *)
(* <<>> is missing (NaN / NaT / <NA>), <<v>> is the value v, and a float   *)
(* is the reduced fraction <<n, d>>.  Instants and durations are minutes.  *)
(***************************************************************************)
EXTENDS Integers, Sequences, FiniteSets, TLC

\* Largest number of records of a data frame handed to a stage function.
MaxRows == 2
\* Largest number of raw batches the upstream generator hands out.
MaxStream == 3

VARIABLES
    timezones,         \* the plants_entity_eia table (plant_id_eia, timezone)
    plant_utc_offset,  \* transform's local: the registry, once loaded
    loads,             \* how many times _load_plant_utc_offset has run
    pc,                \* where the generator `transform` stands
    pulled,            \* the raw dicts pulled from epacems_raw_dfs so far
    src_done,          \* epacems_raw_dfs has raised StopIteration
    yr_st,             \* the key of the dict item being processed
    df,                \* the data frame travelling through the pipe
    yielded,           \* what the consumer has received, in order
    raised,            \* the exception that reached the consumer
    calls,             \* number of next() calls the consumer has made
    log,               \* the stages run so far, as <<batch number, stage>>
    fn,                \* stage function called on its own ("" : none yet)
    fn_df,             \* its data frame argument
    fn_reg,            \* its plant_utc_offset argument
    fn_out,            \* what the call returned or raised
    dfs,               \* PudlTabl._dfs: key -> stored table, or None
    computed,          \* per method, how often its computation was invoked
    called,            \* per method, how often the method was entered
    last_call          \* the latest call made on the object and its result

vars == <<timezones, plant_utc_offset, loads, pc, pulled, src_done, yr_st, df,
          yielded, raised, calls, log, fn, fn_df, fn_reg, fn_out,
          dfs, computed, called, last_call>>

pipeVars == <<timezones, plant_utc_offset, loads, pc, pulled, src_done, yr_st,
              df, yielded, raised, calls, log>>

fnVars == <<fn, fn_df, fn_reg, fn_out>>

tablVars == <<dfs, computed, called, last_call>>

----------------------------------------------------------------------------
(* Values and data frames *)

NA == <<>>

isna(v) == v = NA

notna(v) == v # NA

RECURSIVE GCD(_, _)
GCD(a, b) == IF b = 0 THEN a ELSE GCD(b, a % b)

\* The float n / d, as a reduced fraction.
Float(n, d) == LET g == GCD(n, d) IN IF g = 0 THEN <<n, d>> ELSE <<n \div g, d \div g>>

Range(s) == {s[i] : i \in 1..Len(s)}

EmptyFrame == [columns |-> {}, rows |-> <<>>]

\* df[c] = vals : column c set (added when absent) to the values vals.
SetColumn(d, c, vals) ==
    [columns |-> d.columns \cup {c},
     rows |-> [i \in 1..Len(d.rows) |->
                 [k \in d.columns \cup {c} |->
                     IF k = c THEN vals[i] ELSE d.rows[i][k]]]]

\* del df[c1], df[c2], ...
DelColumns(d, cs) ==
    [columns |-> d.columns \ cs,
     rows |-> [i \in 1..Len(d.rows) |->
                 [k \in d.columns \ cs |-> d.rows[i][k]]]]

\* The values of column c, in row order.
Column(d, c) == [i \in 1..Len(d.rows) |-> d.rows[i][c]]

RECURSIVE Flatten(_)
Flatten(ss) == IF ss = <<>> THEN <<>> ELSE Head(ss) \o Flatten(Tail(ss))

RECURSIVE SelectRows(_, _)
SelectRows(s, keep) ==
    IF s = <<>> THEN <<>>
    ELSE IF keep[1] THEN <<Head(s)>> \o SelectRows(Tail(s), Tail(keep))
         ELSE SelectRows(Tail(s), Tail(keep))

\* A list of the values that keeps repeated values.
unique_keeps_repeats(s) == s

\* Series.unique(): the distinct values in order of first appearance.
RECURSIVE unique(_)
unique(s) ==
    IF s = <<>> THEN <<>>
    ELSE LET front == unique(SubSeq(s, 1, Len(s) - 1))
             last  == s[Len(s)]
         IN IF last \in Range(front) THEN front ELSE Append(front, last)

----------------------------------------------------------------------------
(* Dates: op_date is the text "%m-%d-%Y", modelled as <<month, day, year>> *)

IsLeap(y) == (y % 4 = 0 /\ y % 100 # 0) \/ y % 400 = 0

DaysInMonth(y, m) ==
    IF m = 2 THEN (IF IsLeap(y) THEN 29 ELSE 28)
    ELSE IF m \in {4, 6, 9, 11} THEN 30 ELSE 31

\* Whether the text parses under format %m-%d-%Y with exact=True.
ParsesAsDate(s) ==
    /\ s[1] \in 1..12
    /\ s[2] \in 1..DaysInMonth(s[3], s[1])

\* Days from 1970-01-01 to the civil date y-m-d.
DaysFromCivil(y, m, d) ==
    LET yy  == IF m <= 2 THEN y - 1 ELSE y
        era == yy \div 400
        yoe == yy - era * 400
        mp  == IF m > 2 THEN m - 3 ELSE m + 9
        doy == (153 * mp + 2) \div 5 + d - 1
        doe == yoe * 365 + yoe \div 4 - yoe \div 100 + doy
    IN era * 146097 + doe - 719468

\* pd.to_datetime(text, utc=True): midnight of the date, labelled UTC.
to_datetime(s) == DaysFromCivil(s[3], s[1], s[2]) * 1440

\* pd.to_timedelta(h, unit="h")
to_timedelta_h(h) == h * 60

----------------------------------------------------------------------------
(* The plant offset registry *)

\* pytz.timezone(tz).localize(jan1).utcoffset(), in minutes.
utcoffset(tz) ==
    CASE tz = "America/New_York" -> -300
      [] tz = "America/Chicago"  -> -360
      [] tz = "Asia/Kolkata"     -> 330
      [] OTHER                   -> 0

\* _load_plant_utc_offset: rows without a plant id or a timezone are dropped,
\* the timezone column is replaced by its January offset.
load_plant_utc_offset(tbl) ==
    LET kept == SelectRows(tbl, [i \in 1..Len(tbl) |->
                     notna(tbl[i].plant_id_eia) /\ notna(tbl[i].timezone)])
    IN [i \in 1..Len(kept) |->
          [plant_id_eia |-> kept[i].plant_id_eia[1],
           utc_offset   |-> <<utcoffset(kept[i].timezone[1])>>]]

----------------------------------------------------------------------------
(* fix_up_dates *)

NoError == [kind |-> "none", plants |-> <<>>]

Returned(d) == [raised |-> FALSE, df |-> d, error |-> NoError]

Raised(kind, plants) ==
    [raised |-> TRUE, df |-> EmptyFrame, error |-> [kind |-> kind, plants |-> plants]]

\* The merge with how="inner": a row without a registry match is dropped.
merge_inner(d, reg) ==
    LET matches(r) == SelectRows(reg, [j \in 1..Len(reg) |->
                          reg[j].plant_id_eia = r.plant_id_eia])
        joined(r) ==
            LET ms == matches(r)
            IN [j \in 1..Len(ms) |->
                  [k \in d.columns \cup {"utc_offset"} |->
                      IF k = "utc_offset" THEN ms[j].utc_offset ELSE r[k]]]
    IN [columns |-> d.columns \cup {"utc_offset"},
        rows |-> Flatten([i \in 1..Len(d.rows) |-> joined(d.rows[i])])]

\* The merge with sort=True: the joined rows in the order of their plant id.
merge_left_sorted(d, reg) ==
    LET matches(r) == SelectRows(reg, [j \in 1..Len(reg) |->
                          reg[j].plant_id_eia = r.plant_id_eia])
        withOffset(r, off) ==
            [k \in d.columns \cup {"utc_offset"} |->
                IF k = "utc_offset" THEN off ELSE r[k]]
        joined(r) ==
            LET ms == matches(r)
            IN IF ms = <<>> THEN <<withOffset(r, NA)>>
               ELSE [j \in 1..Len(ms) |-> withOffset(r, ms[j].utc_offset)]
        ofPlant(p) == SelectRows(d.rows, [i \in 1..Len(d.rows) |->
                          d.rows[i]["plant_id_eia"] = p])
        sorted == Flatten([p \in 1..3 |-> ofPlant(p)])
    IN [columns |-> d.columns \cup {"utc_offset"},
        rows |-> Flatten([i \in 1..Len(sorted) |-> joined(sorted[i])])]

\* df.merge(plant_utc_offset, how="left", on="plant_id_eia"): every left row,
\* in order, once per matching registry row, or once with a missing
\* utc_offset when no registry row matches.
merge_left(d, reg) ==
    LET matches(r) == SelectRows(reg, [j \in 1..Len(reg) |->
                          reg[j].plant_id_eia = r.plant_id_eia])
        withOffset(r, off) ==
            [k \in d.columns \cup {"utc_offset"} |->
                IF k = "utc_offset" THEN off ELSE r[k]]
        joined(r) ==
            LET ms == matches(r)
            IN IF ms = <<>> THEN <<withOffset(r, NA)>>
               ELSE [j \in 1..Len(ms) |-> withOffset(r, ms[j].utc_offset)]
    IN [columns |-> d.columns \cup {"utc_offset"},
        rows |-> Flatten([i \in 1..Len(d.rows) |-> joined(d.rows[i])])]

\* The offset taken off the naive instant.
add_offset_subtracted(naive, offset) == naive - offset

\* The offset is added to the naive instant.
add_offset(naive, offset) == naive + offset

fix_up_dates(d, reg) ==
    IF \E i \in 1..Len(d.rows) : ~ParsesAsDate(d.rows[i]["op_date"])
    THEN Raised("bad_date", <<>>)
    ELSE
    LET d1 == SetColumn(d, "op_datetime_naive",
                  [i \in 1..Len(d.rows) |->
                      to_datetime(d.rows[i]["op_date"])
                      + to_timedelta_h(d.rows[i]["op_hour"])])
        d2 == merge_left(d1, reg)
        na == [i \in 1..Len(d2.rows) |-> isna(d2.rows[i]["utc_offset"])]
    IN IF \E i \in 1..Len(d2.rows) : na[i]
       THEN Raised("utc_offset_missing",
                   unique(Column([columns |-> d2.columns,
                                  rows |-> SelectRows(d2.rows, na)],
                                 "plant_id_eia")))
       ELSE
       LET d3 == SetColumn(d2, "operating_datetime_utc",
                     [i \in 1..Len(d2.rows) |->
                         add_offset(d2.rows[i]["op_datetime_naive"],
                                    d2.rows[i]["utc_offset"][1])])
       IN Returned(DelColumns(d3, {"op_date", "op_hour",
                                   "op_datetime_naive", "utc_offset"}))

----------------------------------------------------------------------------
(* The other stages *)

\* pc.epacems_columns_fill_na_dict: field name -> fill-in default.
epacems_columns_fill_na_dict == [gross_load_mw |-> Float(0, 1)]

\* raw_df.fillna(dict): a new frame in which the missing values of the
\* columns the dict names are replaced by the dict's defaults.
fillna(d, defaults) ==
    [columns |-> d.columns,
     rows |-> [i \in 1..Len(d.rows) |->
                 [k \in d.columns |->
                     IF k \in DOMAIN defaults /\ isna(d.rows[i][k])
                     THEN defaults[k] ELSE d.rows[i][k]]]]

\* Not yet implemented in the source: the frame is returned as it is.
harmonize_eia_epa_orispl(d) == d

\* The harmonizer with `elif` for its second test: one column per call.
add_facility_id_unit_id_epa_elif(d) ==
    LET na_col == [i \in 1..Len(d.rows) |-> NA]
    IN IF "facility_id" \notin d.columns THEN SetColumn(d, "facility_id", na_col)
       ELSE IF "unit_id_epa" \notin d.columns THEN SetColumn(d, "unit_id_epa", na_col)
       ELSE d

\* The harmonizer assigning both columns whenever one of them is absent.
add_facility_id_unit_id_epa_both(d) ==
    LET na_col == [i \in 1..Len(d.rows) |-> NA]
    IN IF "facility_id" \notin d.columns \/ "unit_id_epa" \notin d.columns
       THEN SetColumn(SetColumn(d, "facility_id", na_col), "unit_id_epa", na_col)
       ELSE d

add_facility_id_unit_id_epa(d) ==
    IF "facility_id" \notin d.columns \/ "unit_id_epa" \notin d.columns
    THEN LET na_col == [i \in 1..Len(d.rows) |-> NA]
             d1 == IF "facility_id" \notin d.columns
                   THEN SetColumn(d, "facility_id", na_col) ELSE d
             d2 == IF "unit_id_epa" \notin d1.columns
                   THEN SetColumn(d1, "unit_id_epa", na_col) ELSE d1
         IN d2
    ELSE d

\* series >= k
Exceeds_or_equals(v, k) == notna(v) /\ v[1] >= k * v[2]

\* series > k, false on a missing value.
Exceeds(v, k) == notna(v) /\ v[1] > k * v[2]

\* series / k
DividedBy(v, k) == Float(v[1], v[2] * k)

\* The corrector assigning through a copy (df[bad]["gross_load_mw"] = ...):
\* the frame comes back as it was.
correct_gross_load_mw_on_copy(d) == d

correct_gross_load_mw(d) ==
    LET bad == [i \in 1..Len(d.rows) |-> Exceeds(d.rows[i]["gross_load_mw"], 2000)]
    IN IF \E i \in 1..Len(d.rows) : bad[i]
       THEN SetColumn(d, "gross_load_mw",
                [i \in 1..Len(d.rows) |->
                    IF bad[i] THEN DividedBy(d.rows[i]["gross_load_mw"], 1000)
                    ELSE d.rows[i]["gross_load_mw"]])
       ELSE d

----------------------------------------------------------------------------
(* Inputs *)

\* All sequences over S of length at most n.
SeqsUpTo(S, n) == UNION {[1..k -> S] : k \in 0..n}

Frame(cols, rows) == [columns |-> cols, rows |-> rows]

PlantIds == {1, 2, 3}

TzValues == {NA, <<"America/New_York">>, <<"Asia/Kolkata">>, <<"UTC">>}

TzRowChoices(p) ==
    {<<>>} \cup {<<[plant_id_eia |-> <<p>>, timezone |-> z]>> : z \in TzValues}

\* plants_entity_eia: at most one row per plant, the timezone possibly
\* missing; plant 3 is in no table.
TimezoneTables == {a \o b : a \in TzRowChoices(1), b \in TzRowChoices(2)}

Registries == {load_plant_utc_offset(t) : t \in TimezoneTables}

\* Registries with a second entry for plant 1.
DuplicateRegistries ==
    {Append(r, [plant_id_eia |-> 1, utc_offset |-> <<330>>]) :
        r \in {q \in Registries : \E j \in 1..Len(q) : q[j].plant_id_eia = 1}}

\* What fix_up_dates may be handed as plant_utc_offset.
RegistryArgs == Registries \cup DuplicateRegistries

RawColumns == {"plant_id_eia", "op_date", "op_hour", "gross_load_mw"}

CleanColumns == {"plant_id_eia", "operating_datetime_utc", "gross_load_mw"}

\* Records over three op_date texts that parse and one that does not
\* (February 30).
DateRows ==
    {[plant_id_eia |-> p, op_date |-> dh[1], op_hour |-> dh[2],
      gross_load_mw |-> dh[3]] :
        p \in PlantIds,
        dh \in {<<<<7, 4, 2016>>, 23, Float(1500, 1)>>,
                <<<<12, 31, 2015>>, 23, Float(25000, 1)>>,
                <<<<1, 1, 2015>>, 0, Float(3200, 1)>>,
                <<<<2, 30, 2016>>, 0, Float(1500, 1)>>}}

DateFrames == {Frame(RawColumns, rs) : rs \in SeqsUpTo(DateRows, MaxRows)}

GrossLoads == {NA, Float(0, 1), Float(1500, 1), Float(2000, 1), Float(4001, 2),
               Float(3200, 1), Float(25000, 1)}

LoadRows ==
    {[plant_id_eia |-> p, operating_datetime_utc |-> 0, gross_load_mw |-> g] :
        p \in {1, 2}, g \in GrossLoads}

LoadFrames == {Frame(CleanColumns, rs) : rs \in SeqsUpTo(LoadRows, MaxRows)}

IdValues == {NA, <<7>>}

\* Frames with none, one or both of facility_id and unit_id_epa.
IdFrames ==
    UNION {
      {Frame(CleanColumns \cup opt,
             [i \in 1..Len(rs) |->
                [k \in CleanColumns \cup opt |->
                    IF k \in opt THEN ids[i][k] ELSE rs[i][k]]]) :
          rs \in SeqsUpTo({r \in LoadRows : r.plant_id_eia = 1 /\
                              r.gross_load_mw \in {Float(1500, 1), Float(25000, 1)}},
                          MaxRows),
          ids \in [1..MaxRows -> [opt -> IdValues]]} :
      opt \in SUBSET {"facility_id", "unit_id_epa"}}

----------------------------------------------------------------------------
(* A stage function called on its own *)

None == <<>>

\* No PudlTabl object is in play.
IdleTabl ==
    /\ dfs = <<>>
    /\ computed = <<>>
    /\ called = <<>>
    /\ last_call = [n |-> 0, method |-> "", update |-> FALSE, value |-> None]

IdlePipe ==
    /\ timezones = <<>>
    /\ plant_utc_offset = <<>>
    /\ loads = 0
    /\ pc = "idle"
    /\ pulled = <<>>
    /\ src_done = FALSE
    /\ yr_st = <<>>
    /\ df = EmptyFrame
    /\ yielded = <<>>
    /\ raised = NoError
    /\ calls = 0
    /\ log = <<>>

InitFixUpDates ==
    /\ IdlePipe
    /\ IdleTabl
    /\ fn = ""
    /\ fn_df \in DateFrames
    /\ fn_reg \in RegistryArgs
    /\ fn_out = Returned(EmptyFrame)

CallFixUpDates ==
    /\ fn = ""
    /\ fn' = "fix_up_dates"
    /\ fn_out' = fix_up_dates(fn_df, fn_reg)
    /\ UNCHANGED <<fn_df, fn_reg>>
    /\ UNCHANGED pipeVars
    /\ UNCHANGED tablVars

NextFixUpDates == CallFixUpDates

SpecFixUpDates == InitFixUpDates /\ [][NextFixUpDates]_vars

InitAddFacility ==
    /\ IdlePipe
    /\ IdleTabl
    /\ fn = ""
    /\ fn_df \in IdFrames
    /\ fn_reg = <<>>
    /\ fn_out = Returned(EmptyFrame)

\* harmonize, and harmonize once more on the result
CallAddFacility ==
    /\ fn \in {"", "add_facility_id_unit_id_epa"}
    /\ fn' = IF fn = "" THEN "add_facility_id_unit_id_epa" ELSE "again"
    /\ fn_out' = Returned(add_facility_id_unit_id_epa(
                              IF fn = "" THEN fn_df ELSE fn_out.df))
    /\ UNCHANGED <<fn_df, fn_reg>>
    /\ UNCHANGED pipeVars
    /\ UNCHANGED tablVars

NextAddFacility == CallAddFacility

SpecAddFacility == InitAddFacility /\ [][NextAddFacility]_vars

InitCorrect ==
    /\ IdlePipe
    /\ IdleTabl
    /\ fn = ""
    /\ fn_df \in LoadFrames
    /\ fn_reg = <<>>
    /\ fn_out = Returned(EmptyFrame)

CallCorrect ==
    /\ fn = ""
    /\ fn' = "correct_gross_load_mw"
    /\ fn_out' = Returned(correct_gross_load_mw(fn_df))
    /\ UNCHANGED <<fn_df, fn_reg>>
    /\ UNCHANGED pipeVars
    /\ UNCHANGED tablVars

NextCorrect == CallCorrect

SpecCorrect == InitCorrect /\ [][NextCorrect]_vars

----------------------------------------------------------------------------
(* transform: the generator, its upstream generator and its consumer *)

BatchKeys == {<<2015, "al">>, <<2016, "ny">>}

\* Raw frames: an empty one; a load reported in the wrong unit; the id
\* columns present and a missing load; a plant no timezone table holds; the
\* same record at plant 1; a date that does not parse, with only facility_id
\* present.
RawFrames ==
    { Frame(RawColumns, <<>>),
      Frame(RawColumns,
            <<[plant_id_eia |-> 1, op_date |-> <<7, 4, 2016>>, op_hour |-> 23,
               gross_load_mw |-> Float(25000, 1)]>>),
      Frame(RawColumns \cup {"facility_id", "unit_id_epa"},
            <<[plant_id_eia |-> 1, op_date |-> <<1, 1, 2015>>, op_hour |-> 0,
               gross_load_mw |-> NA, facility_id |-> <<7>>, unit_id_epa |-> NA],
              [plant_id_eia |-> 2, op_date |-> <<12, 31, 2015>>, op_hour |-> 23,
               gross_load_mw |-> Float(1500, 1), facility_id |-> NA,
               unit_id_epa |-> <<7>>]>>),
      Frame(RawColumns,
            <<[plant_id_eia |-> 3, op_date |-> <<1, 1, 2015>>, op_hour |-> 0,
               gross_load_mw |-> Float(3200, 1)]>>),
      Frame(RawColumns,
            <<[plant_id_eia |-> 1, op_date |-> <<1, 1, 2015>>, op_hour |-> 0,
               gross_load_mw |-> Float(3200, 1)]>>),
      Frame(RawColumns \cup {"facility_id"},
            <<[plant_id_eia |-> 2, op_date |-> <<2, 30, 2016>>, op_hour |-> 0,
               gross_load_mw |-> Float(2000, 1), facility_id |-> <<7>>]>>) }

\* What epacems_raw_dfs hands out: a dict of one item, yr_st -> raw_df.
RawDicts == {[yr_st |-> k, raw_df |-> f] : k \in BatchKeys, f \in RawFrames}

IdleFn ==
    /\ fn = "transform"
    /\ fn_df = EmptyFrame
    /\ fn_reg = <<>>
    /\ fn_out = Returned(EmptyFrame)

\* transform(...) has been called: a generator object, its body not started.
Init ==
    /\ timezones \in TimezoneTables
    /\ plant_utc_offset = <<>>
    /\ loads = 0
    /\ pc = "created"
    /\ pulled = <<>>
    /\ src_done = FALSE
    /\ yr_st = <<>>
    /\ df = EmptyFrame
    /\ yielded = <<>>
    /\ raised = NoError
    /\ calls = 0
    /\ log = <<>>
    /\ IdleFn
    /\ IdleTabl

\* The consumer asks for the next cleaned batch: the body starts, or resumes
\* after its yield.
ConsumerNext ==
    /\ pc \in {"created", "suspended"}
    /\ calls' = calls + 1
    /\ pc' = IF pc = "created" THEN "start" ELSE "for"
    /\ UNCHANGED <<timezones, plant_utc_offset, loads, pulled, src_done, yr_st,
                   df, yielded, raised, log>>
    /\ UNCHANGED fnVars
    /\ UNCHANGED tablVars

\* The consumer asks again of a generator that has returned or raised: it
\* gets StopIteration and the body does not run.
ConsumerNextAfterEnd ==
    /\ pc \in {"done", "raised"}
    /\ calls <= MaxStream
    /\ calls' = calls + 1
    /\ UNCHANGED <<timezones, plant_utc_offset, loads, pc, pulled, src_done,
                   yr_st, df, yielded, raised, log>>
    /\ UNCHANGED fnVars
    /\ UNCHANGED tablVars

\* The body up to the for statement: the registry is loaded.
LoadRegistry ==
    /\ pc = "start"
    /\ plant_utc_offset' = load_plant_utc_offset(timezones)
    /\ loads' = loads + 1
    /\ pc' = "for"
    /\ UNCHANGED <<timezones, pulled, src_done, yr_st, df, yielded, raised,
                   calls, log>>
    /\ UNCHANGED fnVars
    /\ UNCHANGED tablVars

\* The for statement of a body that keeps the records of the raw frame it
\* pulled before and puts the new ones after them.
PullRaw_accumulates ==
    /\ pc = "for"
    /\ ~src_done
    /\ Len(pulled) < MaxStream
    /\ \E item \in RawDicts :
          /\ pulled' = Append(pulled, item)
          /\ yr_st' = item.yr_st
          /\ df' = IF pulled # <<>> /\
                      pulled[Len(pulled)].raw_df.columns = item.raw_df.columns
                   THEN [columns |-> item.raw_df.columns,
                         rows |-> pulled[Len(pulled)].raw_df.rows \o item.raw_df.rows]
                   ELSE item.raw_df
    /\ pc' = "fillna"
    /\ UNCHANGED <<timezones, plant_utc_offset, loads, src_done, yielded,
                   raised, calls, log>>
    /\ UNCHANGED fnVars
    /\ UNCHANGED tablVars

\* The for statement with the registry loaded inside the loop.
PullRaw_reloads ==
    /\ pc = "for"
    /\ ~src_done
    /\ Len(pulled) < MaxStream
    /\ \E item \in RawDicts :
          /\ pulled' = Append(pulled, item)
          /\ yr_st' = item.yr_st
          /\ df' = item.raw_df
    /\ plant_utc_offset' = load_plant_utc_offset(timezones)
    /\ loads' = loads + 1
    /\ pc' = "fillna"
    /\ UNCHANGED <<timezones, src_done, yielded, raised, calls, log>>
    /\ UNCHANGED fnVars
    /\ UNCHANGED tablVars

\* for raw_df_dict in epacems_raw_dfs: the upstream generator hands out a dict.
PullRaw ==
    /\ pc = "for"
    /\ ~src_done
    /\ Len(pulled) < MaxStream
    /\ \E item \in RawDicts :
          /\ pulled' = Append(pulled, item)
          /\ yr_st' = item.yr_st
          /\ df' = item.raw_df
    /\ pc' = "fillna"
    /\ UNCHANGED <<timezones, plant_utc_offset, loads, src_done, yielded,
                   raised, calls, log>>
    /\ UNCHANGED fnVars
    /\ UNCHANGED tablVars

\* The upstream generator is exhausted: the for loop ends, transform returns.
SourceEnds ==
    /\ pc = "for"
    /\ ~src_done
    /\ src_done' = TRUE
    /\ pc' = "done"
    /\ UNCHANGED <<timezones, plant_utc_offset, loads, pulled, yr_st, df,
                   yielded, raised, calls, log>>
    /\ UNCHANGED fnVars
    /\ UNCHANGED tablVars

Logged(stage) == Append(log, <<Len(pulled), stage>>)

\* The pipe without its reconciliation stage.
Fillna_then_dates ==
    /\ pc = "fillna"
    /\ df' = fillna(df, epacems_columns_fill_na_dict)
    /\ log' = Logged("fillna")
    /\ pc' = "fix_up_dates"
    /\ UNCHANGED <<timezones, plant_utc_offset, loads, pulled, src_done, yr_st,
                   yielded, raised, calls>>
    /\ UNCHANGED fnVars
    /\ UNCHANGED tablVars

Fillna ==
    /\ pc = "fillna"
    /\ df' = fillna(df, epacems_columns_fill_na_dict)
    /\ log' = Logged("fillna")
    /\ pc' = "harmonize_eia_epa_orispl"
    /\ UNCHANGED <<timezones, plant_utc_offset, loads, pulled, src_done, yr_st,
                   yielded, raised, calls>>
    /\ UNCHANGED fnVars
    /\ UNCHANGED tablVars

HarmonizeEiaEpaOrispl ==
    /\ pc = "harmonize_eia_epa_orispl"
    /\ df' = harmonize_eia_epa_orispl(df)
    /\ log' = Logged("harmonize_eia_epa_orispl")
    /\ pc' = "fix_up_dates"
    /\ UNCHANGED <<timezones, plant_utc_offset, loads, pulled, src_done, yr_st,
                   yielded, raised, calls>>
    /\ UNCHANGED fnVars
    /\ UNCHANGED tablVars

\* The stage handing over what it has of the batch before its error leaves.
FixUpDates_partial ==
    /\ pc = "fix_up_dates"
    /\ LET r == fix_up_dates(df, plant_utc_offset)
       IN IF r.raised
          THEN /\ raised' = r.error
               /\ pc' = "raised"
               /\ df' = df
               /\ yielded' = Append(yielded, [yr_st |-> yr_st, df |-> df])
          ELSE /\ df' = r.df
               /\ pc' = "add_facility_id_unit_id_epa"
               /\ raised' = raised
               /\ yielded' = yielded
    /\ log' = Logged("fix_up_dates")
    /\ UNCHANGED <<timezones, plant_utc_offset, loads, pulled, src_done, yr_st,
                   calls>>
    /\ UNCHANGED fnVars
    /\ UNCHANGED tablVars

\* fix_up_dates returns the resolved frame, or its error leaves the generator
\* and reaches the consumer.
FixUpDates ==
    /\ pc = "fix_up_dates"
    /\ LET r == fix_up_dates(df, plant_utc_offset)
       IN IF r.raised
          THEN /\ raised' = r.error
               /\ pc' = "raised"
               /\ df' = df
          ELSE /\ df' = r.df
               /\ pc' = "add_facility_id_unit_id_epa"
               /\ raised' = raised
    /\ log' = Logged("fix_up_dates")
    /\ UNCHANGED <<timezones, plant_utc_offset, loads, pulled, src_done, yr_st,
                   yielded, calls>>
    /\ UNCHANGED fnVars
    /\ UNCHANGED tablVars

AddFacilityIdUnitIdEpa ==
    /\ pc = "add_facility_id_unit_id_epa"
    /\ df' = add_facility_id_unit_id_epa(df)
    /\ log' = Logged("add_facility_id_unit_id_epa")
    /\ pc' = "correct_gross_load_mw"
    /\ UNCHANGED <<timezones, plant_utc_offset, loads, pulled, src_done, yr_st,
                   yielded, raised, calls>>
    /\ UNCHANGED fnVars
    /\ UNCHANGED tablVars

CorrectGrossLoadMw ==
    /\ pc = "correct_gross_load_mw"
    /\ df' = correct_gross_load_mw(df)
    /\ log' = Logged("correct_gross_load_mw")
    /\ pc' = "yield"
    /\ UNCHANGED <<timezones, plant_utc_offset, loads, pulled, src_done, yr_st,
                   yielded, raised, calls>>
    /\ UNCHANGED fnVars
    /\ UNCHANGED tablVars

\* The yield of a body that fetches the next raw dict before it suspends.
Yield_prefetching ==
    /\ pc = "yield"
    /\ yielded' = Append(yielded, [yr_st |-> yr_st, df |-> df])
    /\ pc' = "suspended"
    /\ pulled' = IF Len(pulled) < MaxStream
                 THEN Append(pulled, CHOOSE item \in RawDicts : TRUE)
                 ELSE pulled
    /\ UNCHANGED <<timezones, plant_utc_offset, loads, src_done, yr_st,
                   df, raised, calls, log>>
    /\ UNCHANGED fnVars
    /\ UNCHANGED tablVars

\* yield {yr_st: df}: the consumer receives the batch, the body is suspended.
Yield ==
    /\ pc = "yield"
    /\ yielded' = Append(yielded, [yr_st |-> yr_st, df |-> df])
    /\ pc' = "suspended"
    /\ UNCHANGED <<timezones, plant_utc_offset, loads, pulled, src_done, yr_st,
                   df, raised, calls, log>>
    /\ UNCHANGED fnVars
    /\ UNCHANGED tablVars

Next ==
    \/ ConsumerNext
    \/ ConsumerNextAfterEnd
    \/ LoadRegistry
    \/ PullRaw
    \/ SourceEnds
    \/ Fillna
    \/ HarmonizeEiaEpaOrispl
    \/ FixUpDates
    \/ AddFacilityIdUnitIdEpa
    \/ CorrectGrossLoadMw
    \/ Yield

Spec == Init /\ [][Next]_vars

----------------------------------------------------------------------------
(* PudlTabl: the tables of the PUDL DB, computed on request and kept *)

\* How many calls are made on one object.
MaxCalls == 2

Methods ==
    {"pu_eia860", "pu_ferc1", "utils_eia860", "bga_eia860", "plants_eia860",
     "gens_eia860", "own_eia860", "gf_eia923", "frc_eia923", "bf_eia923",
     "gen_eia923", "plants_steam_ferc1", "fuel_ferc1", "bga",
     "heat_rate_by_gen", "heat_rate_by_unit", "fuel_cost", "capacity_factor",
     "mcoe"}

\* The key of self._dfs a method reads and writes.
Key(m) ==
    CASE m = "pu_eia860"         -> "pu_eia"
      [] m = "heat_rate_by_gen"  -> "hr_by_gen"
      [] m = "heat_rate_by_unit" -> "hr_by_unit"
      [] OTHER                   -> m

Keys ==
    {"pu_eia", "pu_ferc1", "utils_eia860", "bga_eia860", "plants_eia860",
     "gens_eia860", "own_eia860", "gf_eia923", "frc_eia923", "bf_eia923",
     "gen_eia923", "plants_steam_ferc1", "fuel_ferc1", "bga", "hr_by_unit",
     "hr_by_gen", "fuel_cost", "capacity_factor", "mcoe"}

\* The methods that hand the object itself to their computation.
PassesSelf ==
    {"heat_rate_by_gen", "heat_rate_by_unit", "fuel_cost", "capacity_factor",
     "mcoe"}

\* pudl.analysis.mcoe: the tables a derived table is computed from, read
\* through the object's own methods with their default arguments.
Inputs(m) ==
    CASE m = "heat_rate_by_unit" -> <<"gen_eia923", "bga", "bf_eia923">>
      [] m = "heat_rate_by_gen"  -> <<"bga", "heat_rate_by_unit", "gens_eia860">>
      [] m = "fuel_cost"         -> <<"heat_rate_by_gen", "gens_eia860", "frc_eia923">>
      [] m = "capacity_factor"   -> <<"gens_eia860", "gen_eia923">>
      [] m = "mcoe"              -> <<"fuel_cost", "capacity_factor">>
      [] OTHER                   -> <<>>

\* The guard that honours update only while nothing is stored.
must_compute_unless_stored(update, stored) == stored = None

\* if update or self._dfs[key] is None
must_compute(update, stored) == update \/ stored = None

\* A call of method m on the object in state s = [dfs, computed, called]:
\* the state it leaves.  The n-th result of m's computation is <<m, n>>.
RECURSIVE call(_, _, _)
RECURSIVE call_each(_, _)
call(s, m, update) ==
    LET s0 == [s EXCEPT !.called[m] = @ + 1]
    IN IF must_compute(update, s0.dfs[Key(m)])
       THEN LET s1 == IF m \in PassesSelf THEN call_each(s0, Inputs(m)) ELSE s0
                n  == s1.computed[m] + 1
            IN [s1 EXCEPT !.computed[m] = n, !.dfs[Key(m)] = <<m, n>>]
       ELSE s0

call_each(s, ms) ==
    IF ms = <<>> THEN s ELSE call_each(call(s, Head(ms), FALSE), Tail(ms))

\* PudlTabl(...): every entry of _dfs is None.
InitTabl ==
    /\ IdlePipe
    /\ fn = "PudlTabl"
    /\ fn_df = EmptyFrame
    /\ fn_reg = <<>>
    /\ fn_out = Returned(EmptyFrame)
    /\ dfs = [k \in Keys |-> None]
    /\ computed = [m \in Methods |-> 0]
    /\ called = [m \in Methods |-> 0]
    /\ last_call = [n |-> 0, method |-> "", update |-> FALSE, value |-> None]

\* The user calls one of the methods, with or without update=True.
CallMethod ==
    /\ last_call.n < MaxCalls
    /\ \E m \in Methods, update \in BOOLEAN :
          LET s == call([dfs |-> dfs, computed |-> computed, called |-> called],
                        m, update)
          IN /\ dfs' = s.dfs
             /\ computed' = s.computed
             /\ called' = s.called
             /\ last_call' = [n |-> last_call.n + 1, method |-> m, update |-> update,
                         value |-> s.dfs[Key(m)]]
    /\ UNCHANGED pipeVars
    /\ UNCHANGED fnVars

NextTabl == CallMethod

SpecTabl == InitTabl /\ [][NextTabl]_vars

----------------------------------------------------------------------------
(* Claims about the stage functions *)

AllDatesParse(d) == \A i \in 1..Len(d.rows) : ParsesAsDate(d.rows[i]["op_date"])

BatchPlants(d) == {d.rows[i]["plant_id_eia"] : i \in 1..Len(d.rows)}

HasOffset(reg, p) ==
    \E j \in 1..Len(reg) : reg[j].plant_id_eia = p /\ reg[j].utc_offset # <<>>

AbsentPlants(d, reg) == {p \in BatchPlants(d) : ~HasOffset(reg, p)}

OffsetOf(reg, p) ==
    reg[CHOOSE j \in 1..Len(reg) : reg[j].plant_id_eia = p].utc_offset[1]

\* The list names every element of S once and nothing else.
ListsExactly(list, S) ==
    /\ {list[i] : i \in 1..Len(list)} = S
    /\ Len(list) = Cardinality(S)

OffsetOutcome ==
    IF AbsentPlants(fn_df, fn_reg) = {}
    THEN ~fn_out.raised
    ELSE /\ fn_out.raised
         /\ ListsExactly(fn_out.error.plants, AbsentPlants(fn_df, fn_reg))

\* C1 as stated: fix_up_dates raises on no batch all of whose plants have a
\* registry offset, and on any other batch raises an error listing exactly
\* the distinct plant ids of the batch that have none.
C1_AsStated == fn = "fix_up_dates" => OffsetOutcome

\* C1, amended: the same, for the batches whose op_date texts all parse
\* under the expected format; the error is then the missing-offset error.
C1_OffsetInvariant ==
    (fn = "fix_up_dates" /\ AllDatesParse(fn_df)) =>
        /\ OffsetOutcome
        /\ fn_out.raised => fn_out.error.kind = "utc_offset_missing"

\* Two records of one absent plant beside nothing else: the id is listed once.
C1_Witness ==
    /\ fn = "fix_up_dates"
    /\ AllDatesParse(fn_df)
    /\ Len(fn_df.rows) = 2
    /\ fn_df.rows[1]["plant_id_eia"] = fn_df.rows[2]["plant_id_eia"]
    /\ fn_reg # <<>>
    /\ fn_out.raised
    /\ fn_out.error.plants = <<fn_df.rows[1]["plant_id_eia"]>>

\* C2: a record of 2016-07-04, hour 23, at a plant whose offset is -5 hours
\* resolves to 2016-07-05T04:00:00Z.
C2_TimestampCorrectness ==
    (fn = "fix_up_dates" /\ ~fn_out.raised) =>
        \A i \in 1..Len(fn_df.rows) :
            ( /\ fn_df.rows[i]["op_date"] = <<7, 4, 2016>>
              /\ fn_df.rows[i]["op_hour"] = 23
              /\ OffsetOf(fn_reg, fn_df.rows[i]["plant_id_eia"]) = -5 * 60 )
            => fn_out.df.rows[i]["operating_datetime_utc"]
                   = DaysFromCivil(2016, 7, 5) * 1440 + 4 * 60

IdColumns == {"facility_id", "unit_id_epa"}

\* C8: harmonization returns, for every frame, a frame with both id columns:
\* an absent column is added as missing in every record, a present column
\* and every other column keep their values, the record count is unchanged.
C8_HarmonizeTotal ==
    fn = "add_facility_id_unit_id_epa" =>
        /\ ~fn_out.raised
        /\ fn_out.df.columns = fn_df.columns \cup IdColumns
        /\ Len(fn_out.df.rows) = Len(fn_df.rows)
        /\ \A i \in 1..Len(fn_df.rows) :
              /\ \A k \in fn_df.columns : fn_out.df.rows[i][k] = fn_df.rows[i][k]
              /\ \A k \in IdColumns \ fn_df.columns : fn_out.df.rows[i][k] = <<>>

\* Only unit_id_epa is absent and facility_id holds a value.
C8_Witness ==
    /\ fn = "add_facility_id_unit_id_epa"
    /\ fn_df.columns \cap IdColumns = {"facility_id"}
    /\ Len(fn_df.rows) = 2
    /\ fn_df.rows[1]["facility_id"] = <<7>>
    /\ fn_out.df.rows[1]["facility_id"] = <<7>>
    /\ fn_out.df.rows[1]["unit_id_epa"] = <<>>

\* C9: harmonizing a harmonized frame gives the harmonized frame.
C9_HarmonizeIdempotent ==
    fn = "again" => fn_out.df = add_facility_id_unit_id_epa(fn_df)

\* The second call has run on a frame that had neither column.
C9_Witness ==
    /\ fn = "again"
    /\ fn_df.columns \cap IdColumns = {}
    /\ Len(fn_df.rows) = 2
    /\ IdColumns \subseteq fn_out.df.columns

\* C10: a gross load strictly above 2000 is replaced by a thousandth of it
\* (25000 by 25), any other gross load (1500, exactly 2000, missing) is kept,
\* and nothing else changes.
C10_UnitCorrection ==
    fn = "correct_gross_load_mw" =>
        /\ fn_out.df.columns = fn_df.columns
        /\ Len(fn_out.df.rows) = Len(fn_df.rows)
        /\ \A i \in 1..Len(fn_df.rows) :
              LET old == fn_df.rows[i]["gross_load_mw"]
                  new == fn_out.df.rows[i]["gross_load_mw"]
              IN /\ \A k \in fn_df.columns \ {"gross_load_mw"} :
                        fn_out.df.rows[i][k] = fn_df.rows[i][k]
                 /\ IF old # <<>> /\ old[1] > 2000 * old[2]
                    THEN new[1] * 1000 * old[2] = old[1] * new[2]
                    ELSE new = old
                 /\ old = <<25000, 1>> => new = <<25, 1>>
                 /\ old \in {<<1500, 1>>, <<2000, 1>>} => new = old

\* A frame holding 25000 beside exactly 2000.
C10_Witness ==
    /\ fn = "correct_gross_load_mw"
    /\ Len(fn_df.rows) = 2
    /\ fn_df.rows[1]["gross_load_mw"] = <<25000, 1>>
    /\ fn_df.rows[2]["gross_load_mw"] = <<2000, 1>>
    /\ fn_out.df.rows[1]["gross_load_mw"] = <<25, 1>>
    /\ fn_out.df.rows[2]["gross_load_mw"] = <<2000, 1>>

----------------------------------------------------------------------------
(* Claims about transform *)

\* The stages of the pipe applied to one raw frame, in transform's order.
Cleaned(raw_df) ==
    LET r == fix_up_dates(
                 harmonize_eia_epa_orispl(
                     fillna(raw_df, epacems_columns_fill_na_dict)),
                 plant_utc_offset)
    IN IF r.raised THEN r
       ELSE Returned(correct_gross_load_mw(add_facility_id_unit_id_epa(r.df)))

IsCleanedOf(out, item) ==
    /\ out.yr_st = item.yr_st
    /\ ~Cleaned(item.raw_df).raised
    /\ out.df = Cleaned(item.raw_df).df

\* C3: when fix_up_dates fails on the k-th raw batch the error reaches the
\* consumer, the consumer holds exactly the cleaned batches 1..k-1, and from
\* then on nothing more is pulled or yielded, whatever the consumer asks.
C3_AbortOnFailure ==
    /\ [](pc = "raised" =>
            /\ raised # NoError
            /\ raised = Cleaned(pulled[Len(pulled)].raw_df).error
            /\ Len(yielded) = Len(pulled) - 1
            /\ \A i \in 1..Len(yielded) : IsCleanedOf(yielded[i], pulled[i]))
    /\ [][pc = "raised" =>
            (pc' = "raised" /\ pulled' = pulled /\ yielded' = yielded)]_vars

\* The second batch failed and the consumer has asked once more since.
C3_Witness ==
    /\ pc = "raised"
    /\ Len(pulled) = 2
    /\ Len(yielded) = 1
    /\ raised.kind = "utc_offset_missing"
    /\ calls = 3

\* C4: when the raw stream ends after N batches without an error, the
\* consumer holds N batches, the i-th the cleaned form of the i-th raw batch
\* under the same key, empty exactly when the raw batch is empty.
C4_BatchCount ==
    pc = "done" =>
        /\ Len(yielded) = Len(pulled)
        /\ \A i \in 1..Len(pulled) :
              /\ IsCleanedOf(yielded[i], pulled[i])
              /\ Len(yielded[i].df.rows) > 0 <=> Len(pulled[i].raw_df.rows) > 0

\* Two batches went through: an empty one, then one with two records.
C4_Witness ==
    /\ pc = "done"
    /\ Len(yielded) = 2
    /\ Len(pulled[1].raw_df.rows) = 0
    /\ Len(yielded[1].df.rows) = 0
    /\ Len(yielded[2].df.rows) = 2
    /\ yielded[1].yr_st # yielded[2].yr_st

Stages == <<"fillna", "harmonize_eia_epa_orispl", "fix_up_dates",
            "add_facility_id_unit_id_epa", "correct_gross_load_mw">>

\* C5: the stages run in the order fill, reconcile, resolve, harmonize,
\* correct, once each per batch and batch after batch; a yielded batch has
\* been through all five, each fed the output of the one before.
C5_StageOrder ==
    /\ \A j \in 1..Len(log) :
          log[j] = <<((j - 1) \div 5) + 1, Stages[((j - 1) % 5) + 1]>>
    /\ pc \in {"yield", "suspended"} =>
          /\ Len(log) = 5 * Len(pulled)
          /\ df = Cleaned(pulled[Len(pulled)].raw_df).df
    /\ pc = "fix_up_dates" => log[Len(log)] = <<Len(pulled), "harmonize_eia_epa_orispl">>

\* Two batches have been through the five stages.
C5_Witness ==
    /\ pc = "suspended"
    /\ Len(yielded) = 2
    /\ Len(log) = 10

\* C6: the registry is loaded once, before the first raw batch is pulled,
\* and every later step finds it as it was built.
C6_RegistryOnce ==
    /\ pc \in {"created", "start"} => (loads = 0 /\ pulled = <<>>)
    /\ pc \notin {"created", "start"} =>
          /\ loads = 1
          /\ plant_utc_offset = load_plant_utc_offset(timezones)

\* The second batch, after a first one that got its id columns added,
\* stands before its offset lookup.
C6_Witness ==
    /\ pc = "fix_up_dates"
    /\ Len(pulled) = 2
    /\ Len(yielded) = 1
    /\ "facility_id" \notin pulled[1].raw_df.columns
    /\ plant_utc_offset # <<>>

\* C7: a raw batch is pulled only on the consumer's request and only after
\* every earlier one was yielded: at most one pulled batch is not yet
\* yielded, and a consumer that has taken k outputs has caused k pulls.
C7_Lazy ==
    /\ Len(pulled) <= calls
    /\ Len(pulled) - Len(yielded) \in {0, 1}
    /\ pc = "created" => pulled = <<>>
    /\ pc = "suspended" => (Len(pulled) = Len(yielded) /\ Len(yielded) = calls)

\* The consumer holds two outputs and has not asked for a third.
C7_Witness ==
    /\ pc = "suspended"
    /\ Len(yielded) = 2
    /\ calls = 2
    /\ Len(pulled) = 2

\* C11: the single raw batch [{plant 1, 2015-01-01, hour 0, gross load 3200,
\* no id columns}] under the registry {1: +0h} comes out as the single batch
\* [{plant 1, 2015-01-01T00:00Z, gross load 3.2, facility_id and unit_id_epa
\* missing}], with no op_date, op_hour or utc_offset column.
C11_EndToEnd ==
    ( /\ pc = "done"
      /\ plant_utc_offset = <<[plant_id_eia |-> 1, utc_offset |-> <<0>>]>>
      /\ Len(pulled) = 1
      /\ pulled[1].raw_df =
            [columns |-> {"plant_id_eia", "op_date", "op_hour", "gross_load_mw"},
             rows |-> <<[plant_id_eia |-> 1, op_date |-> <<1, 1, 2015>>,
                         op_hour |-> 0, gross_load_mw |-> <<3200, 1>>]>>] )
    => yielded =
         <<[yr_st |-> pulled[1].yr_st,
            df |-> [columns |-> {"plant_id_eia", "operating_datetime_utc",
                                 "gross_load_mw", "facility_id", "unit_id_epa"},
                    rows |-> <<[plant_id_eia |-> 1,
                                operating_datetime_utc |->
                                    DaysFromCivil(2015, 1, 1) * 1440,
                                gross_load_mw |-> <<16, 5>>,
                                facility_id |-> <<>>,
                                unit_id_epa |-> <<>>]>>]]>>

\* That run has ended: one batch in, one batch out.
C11_Witness ==
    /\ pc = "done"
    /\ plant_utc_offset = <<[plant_id_eia |-> 1, utc_offset |-> <<0>>]>>
    /\ Len(pulled) = 1
    /\ pulled[1].raw_df.rows = <<[plant_id_eia |-> 1, op_date |-> <<1, 1, 2015>>,
                                 op_hour |-> 0, gross_load_mw |-> <<3200, 1>>]>>
    /\ Len(yielded) = 1
    /\ yielded[1].df.rows[1]["gross_load_mw"] = <<16, 5>>

\* C12: no table is computed or stored before its method is entered; a call
\* with update=False on a stored table returns it and computes nothing; a
\* call with update=True computes and replaces what is stored; no call
\* changes a table stored under another key, and a method that does not
\* hand the object to its computation leaves every other key as it was.
C12_Memoization ==
    /\ [](\A m \in Methods :
             called[m] = 0 => (computed[m] = 0 /\ dfs[Key(m)] = <<>>))
    /\ [][last_call'.n = last_call.n + 1 =>
            LET m == last_call'.method
                k == Key(m)
            IN /\ (~last_call'.update /\ dfs[k] # <<>>) =>
                     /\ last_call'.value = dfs[k]
                     /\ computed' = computed
                     /\ dfs' = dfs
               /\ (last_call'.update \/ dfs[k] = <<>>) =>
                     /\ computed'[m] = computed[m] + 1
                     /\ dfs'[k] = <<m, computed'[m]>>
                     /\ dfs'[k] # dfs[k]
                     /\ last_call'.value = dfs'[k]
               /\ \A o \in Keys \ {k} : dfs[o] # <<>> => dfs'[o] = dfs[o]
               /\ m \notin PassesSelf =>
                     \A o \in Keys \ {k} : dfs'[o] = dfs[o]]_vars

\* mcoe was called twice, the second time without update: one computation.
C12_Witness ==
    /\ last_call.n = 2
    /\ last_call.method = "mcoe"
    /\ ~last_call.update
    /\ called["mcoe"] = 2
    /\ computed["mcoe"] = 1
    /\ last_call.value = <<"mcoe", 1>>
    /\ dfs["pu_eia"] = <<>>

\* The pipe as a function of the raw frame, the fill defaults and the
\* registry alone.
CleanedUnder(raw_df, defaults, reg) ==
    LET r == fix_up_dates(harmonize_eia_epa_orispl(fillna(raw_df, defaults)), reg)
    IN IF r.raised THEN r
       ELSE Returned(correct_gross_load_mw(add_facility_id_unit_id_epa(r.df)))

\* C13: what is yielded for a raw batch is determined by that batch, the
\* fill defaults and the registry built from the timezone table, whatever
\* its position and whatever came before it; equal raw batches of one run
\* are yielded as equal cleaned batches.
C13_Stateless ==
    /\ \A i \in 1..Len(yielded) :
          yielded[i].df =
              CleanedUnder(pulled[i].raw_df, epacems_columns_fill_na_dict,
                           load_plant_utc_offset(timezones)).df
    /\ \A i, j \in 1..Len(yielded) :
          pulled[i].raw_df = pulled[j].raw_df => yielded[i].df = yielded[j].df

\* The same raw batch came first and third, with another one between.
C13_Witness ==
    /\ Len(yielded) = 3
    /\ pulled[1].raw_df = pulled[3].raw_df
    /\ pulled[2].raw_df # pulled[1].raw_df
    /\ Len(pulled[1].raw_df.rows) > 0
    /\ Len(pulled[2].raw_df.rows) > 0
    /\ yielded[1].df = yielded[3].df
    /\ yielded[2].df # yielded[1].df

\* At most one registry entry per plant id.
OnePerPlant(reg) ==
    \A i, j \in 1..Len(reg) : reg[i].plant_id_eia = reg[j].plant_id_eia => i = j

\* C14: for a batch whose plants are all in the registry, every record's
\* operating_datetime_utc is midnight of its op_date, labelled UTC, plus
\* op_hour hours plus the plant's registry offset with its sign, the same
\* offset in July as in January; a batch with an unresolvable plant raises
\* and no operating_datetime_utc exists for any of its records.
C14_OffsetAdded ==
    fn = "fix_up_dates" =>
        /\ (AllDatesParse(fn_df) /\ AbsentPlants(fn_df, fn_reg) = {}
              /\ OnePerPlant(fn_reg)) =>
              /\ ~fn_out.raised
              /\ Len(fn_out.df.rows) = Len(fn_df.rows)
              /\ \A i \in 1..Len(fn_df.rows) :
                    fn_out.df.rows[i]["operating_datetime_utc"] =
                        DaysFromCivil(fn_df.rows[i]["op_date"][3],
                                      fn_df.rows[i]["op_date"][1],
                                      fn_df.rows[i]["op_date"][2]) * 1440
                        + fn_df.rows[i]["op_hour"] * 60
                        + OffsetOf(fn_reg, fn_df.rows[i]["plant_id_eia"])
        /\ AbsentPlants(fn_df, fn_reg) # {} =>
              /\ fn_out.raised
              /\ "operating_datetime_utc" \notin fn_out.df.columns
              /\ fn_out.df.rows = <<>>

\* A July reading at hour 23 under the January offset of -5 hours comes out
\* as hour 18 of the same day.
C14_Witness ==
    /\ fn = "fix_up_dates"
    /\ ~fn_out.raised
    /\ OnePerPlant(fn_reg)
    /\ Len(fn_df.rows) = 2
    /\ fn_df.rows[1]["op_date"] = <<7, 4, 2016>>
    /\ fn_df.rows[1]["op_hour"] = 23
    /\ OffsetOf(fn_reg, fn_df.rows[1]["plant_id_eia"]) = -300
    /\ fn_out.df.rows[1]["operating_datetime_utc"]
           = DaysFromCivil(2016, 7, 4) * 1440 + 18 * 60

\* C15: under a registry with at most one entry per plant, a batch whose
\* plants are all in it comes out with one record per record, in order, with
\* the same plant_id_eia and pass-through fields; a registry with two
\* entries for a plant of the batch gives more records than came in.
C15_RecordPreservation ==
    (fn = "fix_up_dates" /\ ~fn_out.raised) =>
        /\ OnePerPlant(fn_reg) =>
              /\ Len(fn_out.df.rows) = Len(fn_df.rows)
              /\ \A i \in 1..Len(fn_df.rows) :
                    \A k \in fn_df.columns \ {"op_date", "op_hour"} :
                        fn_out.df.rows[i][k] = fn_df.rows[i][k]
        /\ (\E i \in 1..Len(fn_df.rows) : \E j, l \in 1..Len(fn_reg) :
               /\ j # l
               /\ fn_reg[j].plant_id_eia = fn_df.rows[i]["plant_id_eia"]
               /\ fn_reg[l].plant_id_eia = fn_df.rows[i]["plant_id_eia"]) =>
              Len(fn_out.df.rows) > Len(fn_df.rows)

\* Two records, plant 2 before plant 1, with different loads, came out in
\* that order.
C15_Witness ==
    /\ fn = "fix_up_dates"
    /\ ~fn_out.raised
    /\ OnePerPlant(fn_reg)
    /\ Len(fn_df.rows) = 2
    /\ fn_df.rows[1]["plant_id_eia"] = 2
    /\ fn_df.rows[2]["plant_id_eia"] = 1
    /\ fn_df.rows[1]["gross_load_mw"] # fn_df.rows[2]["gross_load_mw"]
    /\ Len(fn_out.df.rows) = 2
    /\ fn_out.df.rows[1]["plant_id_eia"] = 2
    /\ fn_out.df.rows[2]["plant_id_eia"] = 1

====
